---- MODULE Spec2Model ----
(***************************************************************************)
(* Model of the ping manager of nakamoto's p2p state machine               *)
(* (p2p/src/fsm/pingmgr.rs): peer records, the liveness state of each      *)
(* peer, the outbox of Io, and the handlers received_event, timer_expired  *)
(* and the Iterator drain.                                                 *)
(*                                                                         *)
(* Time is counted in minutes: LocalTime and LocalDuration are naturals.   *)
(***************************************************************************)
EXTENDS Integers, Sequences, FiniteSets, TLC

\* ------------------------------------------------------------------------
\* Bounds of the model: the clock stops at MaxTime, and the driver drains
\* the outbox down to MaxPending Io before it delivers a stimulus.
MaxTime == 2
MaxPending == 1

\* Over unbounded time a record accepts at most MaxPongs pongs.
MaxPongs == 2

\* Peer addresses (PeerId = net::SocketAddr) and nonces (u64) of the model.
Addrs == {"a1", "a2"}
Nonces == {0, 1}
\* Values of the constructor's ping_timeout argument.
PingTimeouts == {1}

\* ------------------------------------------------------------------------
\* Program constants.
PING_INTERVAL == 2
MAX_RECORDED_LATENCIES == 64

VARIABLES
    peers,          \* PingManager::peers, a map PeerId -> Peer
    ping_timeout,   \* PingManager::ping_timeout
    outbox,         \* PingManager::outbox, the queued Io
    clock,          \* the reading of PingManager::clock
    last,           \* history: the stimulus handled by the last step, with
                    \* the Io a drain returned or a tick enqueued
    firstIo,        \* history: per address, the kind of the first Io produced
                    \* for it since its last PeerNegotiated ("none" if none)
    negotiated,     \* history: per address, whether the most recent of its
                    \* PeerNegotiated and PeerDisconnected events was the former
    tx,             \* two TxStatus values and the Ordering of their comparison
    counts          \* history: per address, the pings enqueued for its record
                    \* and the pongs accepted by it since it was created

vars == <<peers, ping_timeout, outbox, clock, last, firstIo, negotiated, tx, counts>>

\* ------------------------------------------------------------------------
\* State of a peer.
AwaitingPong(nonce, since) ==
    [tag |-> "AwaitingPong", nonce |-> nonce, since |-> since]

Idle(since) == [tag |-> "Idle", since |-> since]

Peer(address, state, latencies) ==
    [address |-> address, state |-> state, latencies |-> latencies]

\* ------------------------------------------------------------------------
\* Io values and the outbox.
Ping(nonce) == [cmd |-> "ping", nonce |-> nonce]
Pong(nonce) == [cmd |-> "pong", nonce |-> nonce]

IoWrite(addr, msg) == [io |-> "send", addr |-> addr, msg |-> msg]
IoSetTimer(duration) == [io |-> "set_timer", duration |-> duration]
IoDisconnect(addr, reason) ==
    [io |-> "disconnect", addr |-> addr, reason |-> reason]

PeerTimeout(what) == [tag |-> "PeerTimeout", what |-> what]

OutboxPing(ob, addr, nonce) == Append(ob, IoWrite(addr, Ping(nonce)))
OutboxPong(ob, addr, nonce) == Append(ob, IoWrite(addr, Pong(nonce)))
OutboxSetTimer(ob, duration) == Append(ob, IoSetTimer(duration))
OutboxDisconnect(ob, addr, reason) == Append(ob, IoDisconnect(addr, reason))

\* Outbox::next: the item returned (a sequence of at most one Io) and the
\* queue left behind.
OutboxNextItem(ob) == IF ob = <<>> THEN <<>> ELSE <<Head(ob)>>
OutboxNextRest(ob) == IF ob = <<>> THEN <<>> ELSE Tail(ob)

\* ------------------------------------------------------------------------
\* Peer::record_latency: push_front, then truncate.
Truncate(s, n) == IF Len(s) > n THEN SubSeq(s, 1, n) ELSE s

\* The sum of the samples of a history, taken front to back as the iterator
\* yields them.
RECURSIVE Sum(_)
Sum(latencies) ==
    IF latencies = <<>> THEN 0 ELSE Head(latencies) + Sum(Tail(latencies))

\* Mutant of latency: the oldest sample is left out of the sum.
latency_without_oldest(latencies) ==
    Sum(SubSeq(latencies, 1, Len(latencies) - 1)) \div Len(latencies)

\* Peer::latency: the sum of the samples divided by their number.  The sum
\* and the quotient are durations, whole numbers of the unit of time, and the
\* division leaves the remainder out.  It divides by zero on an empty history.
latency(latencies) == Sum(latencies) \div Len(latencies)

\* Mutant of record_latency: the history is not truncated.
record_latency_unbounded(latencies, sample) == <<sample>> \o latencies

record_latency(latencies, sample) ==
    Truncate(<<sample>> \o latencies, MAX_RECORDED_LATENCIES)

\* ------------------------------------------------------------------------
\* A handler's result: the peers and the outbox it leaves.
Result(ps, ob) == [peers |-> ps, outbox |-> ob]

\* Another nonce than n.
OtherNonce(n) == CHOOSE m \in Nonces : m # n

\* Mutant of peer_negotiated: the nonce kept in the state is not the one sent.
peer_negotiated_two_draws(ps, ob, now, address, nonce) ==
    LET ob1 == OutboxPing(ob, address, nonce)
        ps1 == [a \in DOMAIN ps \cup {address} |->
                  IF a = address
                  THEN Peer(address, AwaitingPong(OtherNonce(nonce), now),
                            <<>>)
                  ELSE ps[a]]
    IN  Result(ps1, ob1)

\* Mutant of peer_negotiated: the record of a known peer keeps its history.
peer_negotiated_keeps_history(ps, ob, now, address, nonce) ==
    LET ob1 == OutboxPing(ob, address, nonce)
        ps1 == [a \in DOMAIN ps \cup {address} |->
                  IF a = address
                  THEN Peer(address, AwaitingPong(nonce, now),
                            IF address \in DOMAIN ps
                            THEN ps[address].latencies ELSE <<>>)
                  ELSE ps[a]]
    IN  Result(ps1, ob1)

\* PingManager::peer_negotiated, with the nonce drawn from the rng and the
\* clock's reading.
peer_negotiated(ps, ob, now, address, nonce) ==
    LET ob1 == OutboxPing(ob, address, nonce)
        ps1 == [a \in DOMAIN ps \cup {address} |->
                  IF a = address
                  THEN Peer(address, AwaitingPong(nonce, now), <<>>)
                  ELSE ps[a]]
    IN  Result(ps1, ob1)

\* Mutant of peer_disconnected: every record is dropped.
peer_disconnected_clears(ps, ob, addr) == Result(<<>>, ob)

\* Mutant of peer_disconnected: the Io queued for the peer is retracted.
peer_disconnected_retracts(ps, ob, addr) ==
    Result([a \in DOMAIN ps \ {addr} |-> ps[a]],
           SelectSeq(ob, LAMBDA x : x.io = "set_timer" \/ x.addr # addr))

\* self.peers.remove(&addr), the arm of Event::PeerDisconnected.
peer_disconnected(ps, ob, addr) ==
    Result([a \in DOMAIN ps \ {addr} |-> ps[a]], ob)

\* Mutant of received_ping: the pong is sent to unknown peers too.
received_ping_unchecked(ps, ob, addr, nonce) ==
    Result(ps, OutboxPong(ob, addr, nonce))

\* PingManager::received_ping.
received_ping(ps, ob, addr, nonce) ==
    IF addr \in DOMAIN ps
    THEN Result(ps, OutboxPong(ob, addr, nonce))
    ELSE Result(ps, ob)

\* Mutant of received_pong: the sample is recorded and the pong still awaited.
received_pong_stays_awaiting(ps, ob, now, addr, nonce) ==
    IF addr \in DOMAIN ps /\ ps[addr].state.tag = "AwaitingPong"
          /\ ps[addr].state.nonce = nonce
    THEN Result([ps EXCEPT ![addr] =
                    Peer(ps[addr].address, ps[addr].state,
                         record_latency(ps[addr].latencies,
                                        now - ps[addr].state.since))],
                ob)
    ELSE Result(ps, ob)

\* Mutant of received_pong: the idle period starts at the ping, not at the pong.
received_pong_keeps_since(ps, ob, now, addr, nonce) ==
    IF addr \in DOMAIN ps
    THEN LET peer == ps[addr] IN
         IF peer.state.tag = "AwaitingPong" /\ nonce = peer.state.nonce
         THEN Result([ps EXCEPT ![addr] =
                         Peer(peer.address, Idle(peer.state.since),
                              record_latency(peer.latencies,
                                             now - peer.state.since))],
                     ob)
         ELSE Result(ps, ob)
    ELSE Result(ps, ob)

\* Mutant of received_pong: the nonce is not compared.
received_pong_any_nonce(ps, ob, now, addr, nonce) ==
    IF addr \in DOMAIN ps
    THEN LET peer == ps[addr] IN
         IF peer.state.tag = "AwaitingPong"
         THEN Result([ps EXCEPT ![addr] =
                         Peer(peer.address, Idle(now),
                              record_latency(peer.latencies,
                                             now - peer.state.since))],
                     ob)
         ELSE Result(ps, ob)
    ELSE Result(ps, ob)

\* Mutant of received_pong: the pong is accepted and no sample is recorded.
received_pong_no_sample(ps, ob, now, addr, nonce) ==
    IF addr \in DOMAIN ps
    THEN LET peer == ps[addr] IN
         IF peer.state.tag = "AwaitingPong" /\ nonce = peer.state.nonce
         THEN Result([ps EXCEPT ![addr] =
                         Peer(peer.address, Idle(now), peer.latencies)],
                     ob)
         ELSE Result(ps, ob)
    ELSE Result(ps, ob)

\* Mutant of received_pong: a pong that comes after the timeout is ignored.
received_pong_rejects_late(ps, ob, now, addr, nonce) ==
    IF addr \in DOMAIN ps
    THEN LET peer == ps[addr] IN
         IF peer.state.tag = "AwaitingPong" /\ nonce = peer.state.nonce
               /\ now - peer.state.since < ping_timeout
         THEN Result([ps EXCEPT ![addr] =
                         Peer(peer.address, Idle(now),
                              record_latency(peer.latencies,
                                             now - peer.state.since))],
                     ob)
         ELSE Result(ps, ob)
    ELSE Result(ps, ob)

\* PingManager::received_pong.
received_pong(ps, ob, now, addr, nonce) ==
    IF addr \in DOMAIN ps
    THEN LET peer == ps[addr] IN
         IF peer.state.tag = "AwaitingPong" /\ nonce = peer.state.nonce
         THEN Result([ps EXCEPT ![addr] =
                         Peer(peer.address, Idle(now),
                              record_latency(peer.latencies,
                                             now - peer.state.since))],
                     ob)
         ELSE Result(ps, ob)
    ELSE Result(ps, ob)

\* Mutant of timer_expired_idle: when the ping is due the idle period starts
\* again, and no ping is sent.
timer_expired_idle_rests(ps, ob, now, timeout, a, nonce) ==
    LET peer == ps[a] IN
    IF now - peer.state.since >= PING_INTERVAL
    THEN Result([ps EXCEPT ![a] =
                    Peer(peer.address, Idle(now), peer.latencies)],
                ob)
    ELSE Result(ps, ob)

\* The State::Idle arm of the loop of timer_expired.
timer_expired_idle(ps, ob, now, timeout, a, nonce) ==
    LET peer == ps[a] IN
    IF now - peer.state.since >= PING_INTERVAL
    THEN Result([ps EXCEPT ![a] =
                    Peer(peer.address, AwaitingPong(nonce, now),
                         peer.latencies)],
                OutboxSetTimer(
                    OutboxSetTimer(
                        OutboxPing(ob, peer.address, nonce), timeout),
                    PING_INTERVAL))
    ELSE Result(ps, ob)

\* Mutant of timer_expired_peer: the timeout is restarted once signalled.
timer_expired_peer_debounced(ps, ob, now, timeout, a, nonce) ==
    LET peer == ps[a] IN
    IF peer.state.tag = "AwaitingPong"
    THEN IF now - peer.state.since >= timeout
         THEN Result([ps EXCEPT ![a] =
                         Peer(peer.address,
                              AwaitingPong(peer.state.nonce, now),
                              peer.latencies)],
                     OutboxDisconnect(ob, peer.address, PeerTimeout("ping")))
         ELSE Result(ps, ob)
    ELSE timer_expired_idle(ps, ob, now, timeout, a, nonce)

\* Mutant of timer_expired_peer: the record is dropped once timed out.
timer_expired_peer_removes(ps, ob, now, timeout, a, nonce) ==
    LET peer == ps[a] IN
    IF peer.state.tag = "AwaitingPong"
    THEN IF now - peer.state.since >= timeout
         THEN Result([b \in DOMAIN ps \ {a} |-> ps[b]],
                     OutboxDisconnect(ob, peer.address, PeerTimeout("ping")))
         ELSE Result(ps, ob)
    ELSE timer_expired_idle(ps, ob, now, timeout, a, nonce)

\* Mutant of timer_expired_peer: the elapsed time is not compared.
timer_expired_peer_no_elapsed_check(ps, ob, now, timeout, a, nonce) ==
    LET peer == ps[a] IN
    IF peer.state.tag = "AwaitingPong"
    THEN Result(ps, OutboxDisconnect(ob, peer.address, PeerTimeout("ping")))
    ELSE timer_expired_idle(ps, ob, now, timeout, a, nonce)

\* Mutant of timer_expired_peer: the second timer is not set.
timer_expired_peer_one_timer(ps, ob, now, timeout, a, nonce) ==
    LET peer == ps[a] IN
    IF peer.state.tag = "AwaitingPong"
    THEN IF now - peer.state.since >= timeout
         THEN Result(ps, OutboxDisconnect(ob, peer.address,
                                          PeerTimeout("ping")))
         ELSE Result(ps, ob)
    ELSE IF now - peer.state.since >= PING_INTERVAL
         THEN Result([ps EXCEPT ![a] =
                         Peer(peer.address, AwaitingPong(nonce, now),
                              peer.latencies)],
                     OutboxSetTimer(OutboxPing(ob, peer.address, nonce),
                                    timeout))
         ELSE Result(ps, ob)

\* Mutant of timer_expired_peer: on a timeout the wait starts again, silently.
timer_expired_peer_waits_again(ps, ob, now, timeout, a, nonce) ==
    LET peer == ps[a] IN
    IF peer.state.tag = "AwaitingPong"
    THEN IF now - peer.state.since >= timeout
         THEN Result([ps EXCEPT ![a] =
                         Peer(peer.address,
                              AwaitingPong(peer.state.nonce, now),
                              peer.latencies)],
                     ob)
         ELSE Result(ps, ob)
    ELSE timer_expired_idle(ps, ob, now, timeout, a, nonce)

\* Mutant of timer_expired_peer: a peer that has timed out is pinged again.
timer_expired_peer_retries(ps, ob, now, timeout, a, nonce) ==
    LET peer == ps[a] IN
    IF peer.state.tag = "AwaitingPong"
    THEN IF now - peer.state.since >= timeout
         THEN Result(ps, OutboxPing(OutboxDisconnect(ob, peer.address,
                                                     PeerTimeout("ping")),
                                    peer.address, nonce))
         ELSE Result(ps, ob)
    ELSE timer_expired_idle(ps, ob, now, timeout, a, nonce)

\* Mutant of timer_expired_peer: the timeout must be exceeded, not reached.
timer_expired_peer_exclusive(ps, ob, now, timeout, a, nonce) ==
    LET peer == ps[a] IN
    IF peer.state.tag = "AwaitingPong"
    THEN IF now - peer.state.since > timeout
         THEN Result(ps, OutboxDisconnect(ob, peer.address,
                                          PeerTimeout("ping")))
         ELSE Result(ps, ob)
    ELSE timer_expired_idle(ps, ob, now, timeout, a, nonce)

\* The body of the loop of timer_expired, for the peer at key a.
timer_expired_peer(ps, ob, now, timeout, a, nonce) ==
    LET peer == ps[a] IN
    IF peer.state.tag = "AwaitingPong"
    THEN IF now - peer.state.since >= timeout
         THEN Result(ps, OutboxDisconnect(ob, peer.address,
                                          PeerTimeout("ping")))
         ELSE Result(ps, ob)
    ELSE timer_expired_idle(ps, ob, now, timeout, a, nonce)

\* PingManager::timer_expired: the loop over self.peers.values_mut(), which
\* visits the keys in the order `order` of the map, with nonces[a] the nonce
\* the rng yields if it is drawn for a.
RECURSIVE timer_expired(_, _, _, _, _, _)
timer_expired(ps, ob, now, timeout, order, nonces) ==
    IF order = <<>> THEN Result(ps, ob)
    ELSE LET r == timer_expired_peer(ps, ob, now, timeout, Head(order),
                                     nonces[Head(order)])
         IN  timer_expired(r.peers, r.outbox, now, timeout, Tail(order),
                           nonces)

\* The orders in which a HashMap may iterate over the keys in S.
Orders(S) ==
    {o \in [1..Cardinality(S) -> S] : \A a \in S : \E i \in DOMAIN o : o[i] = a}

\* ------------------------------------------------------------------------
\* Events.  Of an event's fields the model keeps the variant, the peer
\* address it carries ("none" if it carries none) and, for MessageReceived,
\* the message.
Event(variant, addr, message) ==
    [variant |-> variant, addr |-> addr, message |-> message]

NoMessage == [cmd |-> "none"]
\* A message that is neither a ping nor a pong.
Verack == [cmd |-> "verack"]

EvPeerNegotiated(addr) == Event("PeerNegotiated", addr, NoMessage)
EvPeerDisconnected(addr) == Event("PeerDisconnected", addr, NoMessage)
EvMessageReceived(from, message) == Event("MessageReceived", from, message)

\* The variants of Event other than PeerNegotiated, PeerDisconnected and
\* MessageReceived: those that carry a peer address, and the others.
PeerVariants ==
    {"PeerLoadedBloomFilter", "PeerConnected", "PeerConnecting",
     "PeerTimedOut", "PeerConnectionFailed", "PeerMisbehaved",
     "ReceivedMerkleBlock", "FilterReceived", "MerkleBlockRescanStopped",
     "MerkleBlockScanStarted"}

PlainVariants ==
    {"Initializing", "Ready", "PeerHeightUpdated", "BlockConnected",
     "BlockDisconnected", "BlockProcessed", "BlockMatched",
     "BlockHeadersSynced", "BlockHeadersImported", "BlockFilterImported",
     "FeeEstimated", "FilterProcessed", "FilterRescanStarted",
     "FilterRescanStopped", "FilterHeadersSynced", "TxStatusChanged",
     "ReceivedMatchedTx", "Scanned", "AddressBookExhausted", "Error"}

\* The events that received_event ignores: every other variant, and a
\* message that is neither a ping nor a pong.
IgnoredEvents ==
    {Event(v, a, NoMessage) : v \in PeerVariants, a \in Addrs}
    \cup {Event(v, "none", NoMessage) : v \in PlainVariants}
    \cup {EvMessageReceived(a, Verack) : a \in Addrs}

\* Every event: the four that received_event handles, for every address and
\* nonce, and the ignored ones.
AllEvents ==
    {EvPeerNegotiated(a) : a \in Addrs}
    \cup {EvPeerDisconnected(a) : a \in Addrs}
    \cup {EvMessageReceived(a, Ping(n)) : a \in Addrs, n \in Nonces}
    \cup {EvMessageReceived(a, Pong(n)) : a \in Addrs, n \in Nonces}
    \cup IgnoredEvents

\* The ignored events the model delivers: those of one variant of each sort.
\* The others lead to the same states, since all are handled by one arm.
DeliveredIgnoredEvents ==
    {e \in IgnoredEvents :
        e.variant \in {"PeerTimedOut", "BlockHeadersSynced", "Error",
                       "MessageReceived"}}

\* The rng's next nonce, for the events whose handling draws none.
Undrawn == CHOOSE n \in Nonces : TRUE

\* Mutant of received_event: PeerTimedOut is handled as a disconnection.
received_event_timed_out_removes(ps, ob, now, event, nonce) ==
    IF event.variant = "PeerNegotiated"
    THEN peer_negotiated(ps, ob, now, event.addr, nonce)
    ELSE IF event.variant \in {"PeerDisconnected", "PeerTimedOut"}
    THEN peer_disconnected(ps, ob, event.addr)
    ELSE IF event.variant = "MessageReceived"
    THEN IF event.message.cmd = "ping"
         THEN received_ping(ps, ob, event.addr, event.message.nonce)
         ELSE IF event.message.cmd = "pong"
         THEN received_pong(ps, ob, now, event.addr, event.message.nonce)
         ELSE Result(ps, ob)
    ELSE Result(ps, ob)

\* PingManager::received_event, with the nonce the rng yields if it is drawn.
received_event(ps, ob, now, event, nonce) ==
    IF event.variant = "PeerNegotiated"
    THEN peer_negotiated(ps, ob, now, event.addr, nonce)
    ELSE IF event.variant = "PeerDisconnected"
    THEN peer_disconnected(ps, ob, event.addr)
    ELSE IF event.variant = "MessageReceived"
    THEN IF event.message.cmd = "ping"
         THEN received_ping(ps, ob, event.addr, event.message.nonce)
         ELSE IF event.message.cmd = "pong"
         THEN received_pong(ps, ob, now, event.addr, event.message.nonce)
         ELSE Result(ps, ob)
    ELSE Result(ps, ob)

\* No ping enqueued and no pong accepted: the counts of a record just made.
NoCounts == [pings |-> 0, pongs |-> 0]

\* ------------------------------------------------------------------------
\* TxStatus and its derived order.

\* The values of the fields: socket addresses (ip, port), heights, block
\* hashes, transactions and transaction ids, each ordered as its type is.
SocketAddrs == {<<0, 0>>, <<0, 1>>, <<1, 0>>}
Heights == {0, 1}
BlockHashes == {0, 1}
Transactions == {0, 1}
Txids == {0, 1}

Unconfirmed == [tag |-> "Unconfirmed"]
Acknowledged(peer) == [tag |-> "Acknowledged", peer |-> peer]
Confirmed(height, block) == [tag |-> "Confirmed", height |-> height, block |-> block]
Reverted(transaction) == [tag |-> "Reverted", transaction |-> transaction]
Stale(replaced_by, block) == [tag |-> "Stale", replaced_by |-> replaced_by, block |-> block]

TxStatuses ==
    {Unconfirmed}
      \cup {Acknowledged(p) : p \in SocketAddrs}
      \cup {Confirmed(h, b) : h \in Heights, b \in BlockHashes}
      \cup {Reverted(t) : t \in Transactions}
      \cup {Stale(t, b) : t \in Txids, b \in BlockHashes}

\* Mutant of Discriminant: the variants in the order of their names.
Discriminant_by_name(status) ==
    CASE status.tag = "Acknowledged" -> 0
      [] status.tag = "Confirmed" -> 1
      [] status.tag = "Reverted" -> 2
      [] status.tag = "Stale" -> 3
      [] status.tag = "Unconfirmed" -> 4

\* The position of the value's variant in the declaration of the enum.
Discriminant(status) ==
    CASE status.tag = "Unconfirmed" -> 0
      [] status.tag = "Acknowledged" -> 1
      [] status.tag = "Confirmed" -> 2
      [] status.tag = "Reverted" -> 3
      [] status.tag = "Stale" -> 4

\* Mutant of Fields: the block hash of a Confirmed comes before its height.
Fields_block_first(status) ==
    CASE status.tag = "Unconfirmed" -> <<>>
      [] status.tag = "Acknowledged" -> status.peer
      [] status.tag = "Confirmed" -> <<status.block, status.height>>
      [] status.tag = "Reverted" -> <<status.transaction>>
      [] status.tag = "Stale" -> <<status.replaced_by, status.block>>

\* The fields of the value in the order of their declaration; a socket
\* address stands for its ip and port, by which it is ordered.
Fields(status) ==
    CASE status.tag = "Unconfirmed" -> <<>>
      [] status.tag = "Acknowledged" -> status.peer
      [] status.tag = "Confirmed" -> <<status.height, status.block>>
      [] status.tag = "Reverted" -> <<status.transaction>>
      [] status.tag = "Stale" -> <<status.replaced_by, status.block>>

\* The Ordering of two integers.
cmp_int(x, y) == IF x < y THEN "Less" ELSE IF x = y THEN "Equal" ELSE "Greater"

\* The derived comparison of the fields of two values of one variant: the
\* first field that differs decides.
RECURSIVE cmp_fields(_, _)
cmp_fields(xs, ys) ==
    IF xs = <<>> THEN "Equal"
    ELSE IF cmp_int(Head(xs), Head(ys)) # "Equal"
         THEN cmp_int(Head(xs), Head(ys))
         ELSE cmp_fields(Tail(xs), Tail(ys))

\* #[derive(PartialOrd, Ord)] on TxStatus: the variants in the order of their
\* declaration, then the fields.
cmp(a, b) ==
    IF Discriminant(a) # Discriminant(b)
    THEN cmp_int(Discriminant(a), Discriminant(b))
    ELSE cmp_fields(Fields(a), Fields(b))

\* Two values, not compared yet, and compared.
NotCompared(a, b) == [a |-> a, b |-> b, ordering |-> "none"]

\* Any two values of TxStatus, next to a manager that has just been made.
TxInit ==
    /\ peers = <<>>
    /\ ping_timeout \in PingTimeouts
    /\ outbox = <<>>
    /\ clock = 0
    /\ last = [kind |-> "New", addr |-> "none"]
    /\ firstIo = [a \in Addrs |-> "none"]
    /\ negotiated = [a \in Addrs |-> FALSE]
    /\ \E a \in TxStatuses : \E b \in TxStatuses : tx = NotCompared(a, b)
    /\ counts = [a \in Addrs |-> NoCounts]

\* The two values are compared.
Compare ==
    /\ tx.ordering = "none"
    /\ tx' = [tx EXCEPT !.ordering = cmp(tx.a, tx.b)]
    /\ UNCHANGED <<peers, ping_timeout, outbox, clock, last, firstIo, negotiated,
                   counts>>

TxNext == Compare

TxSpec == TxInit /\ [][TxNext]_vars

\* ------------------------------------------------------------------------
\* History bookkeeping.
IoKind(x) == IF x.io = "send" THEN x.msg.cmd ELSE x.io
IoAddr(x) == IF x.io = "set_timer" THEN "none" ELSE x.addr

\* The Io appended to the outbox ob by a handler that leaves ob2.
Produced(ob, ob2) == SubSeq(ob2, Len(ob) + 1, Len(ob2))

\* The kind of the first Io of s for address a.
RECURSIVE FirstFor(_, _)
FirstFor(s, a) ==
    IF s = <<>> THEN "none"
    ELSE IF IoAddr(Head(s)) = a THEN IoKind(Head(s))
    ELSE FirstFor(Tail(s), a)

\* Every handler but PeerNegotiated: the first Io of an address stays once set.
TrackFirst ==
    firstIo' = [a \in Addrs |->
                  IF firstIo[a] # "none" THEN firstIo[a]
                  ELSE FirstFor(Produced(outbox, outbox'), a)]

\* The number of pings in s addressed to a.
PingsFor(s, a) ==
    Len(SelectSeq(s, LAMBDA x : IoKind(x) = "ping" /\ IoAddr(x) = a))

\* The counts after a handler: they start again for the addresses in reset,
\* whose record the event creates or destroys; the pings the handler enqueued
\* are added, and a pong for the addresses in accepted.
TrackCounts(reset, accepted) ==
    counts' = [a \in Addrs |->
                 LET base == IF a \in reset THEN NoCounts ELSE counts[a] IN
                 [pings |-> base.pings + PingsFor(Produced(outbox, outbox'), a),
                  pongs |-> base.pongs + (IF a \in accepted THEN 1 ELSE 0)]]

\* ------------------------------------------------------------------------
\* PingManager::new and the state before any stimulus.
Init ==
    /\ peers = <<>>
    /\ ping_timeout \in PingTimeouts
    /\ outbox = <<>>
    /\ clock = 0
    /\ last = [kind |-> "New", addr |-> "none"]
    /\ firstIo = [a \in Addrs |-> "none"]
    /\ negotiated = [a \in Addrs |-> FALSE]
    /\ tx = NotCompared(Unconfirmed, Unconfirmed)
    /\ counts = [a \in Addrs |-> NoCounts]

\* The clock collaborator: monotonic.
AdvanceClock ==
    /\ clock < MaxTime
    /\ clock' = clock + 1
    /\ last' = [kind |-> "AdvanceClock", addr |-> "none"]
    /\ UNCHANGED <<peers, ping_timeout, outbox, firstIo, negotiated, tx, counts>>

\* The manager takes the handler's result.  The driver delivers a stimulus
\* only once it has drained the outbox down to MaxPending Io.
Becomes(r) ==
    /\ Len(outbox) <= MaxPending
    /\ peers' = r.peers
    /\ outbox' = r.outbox
    /\ UNCHANGED <<ping_timeout, clock, tx>>

\* received_event(Event::PeerNegotiated { addr, .. })
PeerNegotiated(addr) ==
    /\ \E nonce \in Nonces :
          Becomes(received_event(peers, outbox, clock,
                                 EvPeerNegotiated(addr), nonce))
    /\ last' = [kind |-> "PeerNegotiated", addr |-> addr]
    /\ firstIo' = [firstIo EXCEPT
                     ![addr] = FirstFor(Produced(outbox, outbox'), addr)]
    /\ negotiated' = [negotiated EXCEPT ![addr] = TRUE]
    /\ TrackCounts({addr}, {})

\* received_event(Event::PeerDisconnected { addr, .. })
PeerDisconnected(addr) ==
    /\ Becomes(received_event(peers, outbox, clock,
                              EvPeerDisconnected(addr), Undrawn))
    /\ last' = [kind |-> "PeerDisconnected", addr |-> addr]
    /\ TrackFirst
    /\ negotiated' = [negotiated EXCEPT ![addr] = FALSE]
    /\ TrackCounts({addr}, {})

\* received_event(Event::MessageReceived { from, message: Ping(nonce) })
MessageReceivedPing(from, nonce) ==
    /\ Becomes(received_event(peers, outbox, clock,
                              EvMessageReceived(from, Ping(nonce)), Undrawn))
    /\ last' = [kind |-> "Ping", addr |-> from]
    /\ TrackFirst
    /\ TrackCounts({}, {})
    /\ UNCHANGED negotiated

\* received_event(Event::MessageReceived { from, message: Pong(nonce) })
MessageReceivedPong(from, nonce) ==
    /\ Becomes(received_event(peers, outbox, clock,
                              EvMessageReceived(from, Pong(nonce)), Undrawn))
    /\ last' = [kind |-> "Pong", addr |-> from]
    /\ TrackFirst
    /\ TrackCounts({}, {a \in DOMAIN peers : a = from /\ peers'[a] # peers[a]})
    /\ UNCHANGED negotiated

\* The tick: timer_expired().
Tick ==
    /\ \E order \in Orders(DOMAIN peers) :
         \E nonces \in [DOMAIN peers -> Nonces] :
            Becomes(timer_expired(peers, outbox, clock, ping_timeout,
                                  order, nonces))
    /\ last' = [kind |-> "Tick", addr |-> "none",
                 item |-> Produced(outbox, outbox')]
    /\ TrackFirst
    /\ TrackCounts({}, {})
    /\ UNCHANGED negotiated

\* received_event on the arms `_ => {}`.
IgnoredEvent(event) ==
    /\ Becomes(received_event(peers, outbox, clock, event, Undrawn))
    /\ last' = [kind |-> "Ignored", addr |-> "none"]
    /\ TrackFirst
    /\ TrackCounts({}, {})
    /\ UNCHANGED negotiated

\* Mutant of Drain: the newest Io is returned first.
DrainNewest ==
    /\ outbox' = IF outbox = <<>> THEN <<>>
                 ELSE SubSeq(outbox, 1, Len(outbox) - 1)
    /\ last' = [kind |-> "Drain", addr |-> "none",
                 item |-> IF outbox = <<>> THEN <<>>
                          ELSE <<outbox[Len(outbox)]>>]
    /\ UNCHANGED <<peers, ping_timeout, clock, firstIo, negotiated, tx, counts>>

\* Iterator::next of the manager: the next queued Io, or nothing.
Drain ==
    /\ outbox' = OutboxNextRest(outbox)
    /\ last' = [kind |-> "Drain", addr |-> "none",
                 item |-> OutboxNextItem(outbox)]
    /\ UNCHANGED <<peers, ping_timeout, clock, firstIo, negotiated, tx, counts>>

Next ==
    \/ AdvanceClock
    \/ \E addr \in Addrs : PeerNegotiated(addr)
    \/ \E addr \in Addrs : PeerDisconnected(addr)
    \/ \E from \in Addrs : \E nonce \in Nonces : MessageReceivedPing(from, nonce)
    \/ \E from \in Addrs : \E nonce \in Nonces : MessageReceivedPong(from, nonce)
    \/ Tick
    \/ \E event \in DeliveredIgnoredEvents : IgnoredEvent(event)
    \/ Drain

Spec == Init /\ [][Next]_vars

\* ------------------------------------------------------------------------
\* The manager with a peer whose history is long.  A history of len samples,
\* newest first, all different: the sample recorded k-th is k minutes.
LongHistory(len) == [i \in 1..len |-> len - i + 1]

\* The lengths of the histories the peer starts with: none, and the three
\* lengths up to the capacity.
HistoryLengths ==
    {0} \cup ((MAX_RECORDED_LATENCIES - 2)..MAX_RECORDED_LATENCIES)

\* A state in which peer a1 was negotiated, has answered its pings len times
\* and awaits the pong of the ping sent at the clock's reading.
LatencyInit ==
    /\ \E len \in HistoryLengths : \E nonce \in Nonces :
          /\ peers = [a \in {"a1"} |->
                        Peer(a, AwaitingPong(nonce, 0), LongHistory(len))]
          /\ counts = [a \in Addrs |->
                         IF a = "a1" THEN [pings |-> len + 1, pongs |-> len]
                         ELSE NoCounts]
    /\ ping_timeout \in PingTimeouts
    /\ outbox = <<>>
    /\ clock = 0
    /\ last = [kind |-> "New", addr |-> "none"]
    /\ firstIo = [a \in Addrs |-> IF a = "a1" THEN "ping" ELSE "none"]
    /\ negotiated = [a \in Addrs |-> a = "a1"]
    /\ tx = NotCompared(Unconfirmed, Unconfirmed)

\* The stimuli that make that peer answer and be pinged again.
LatencyNext ==
    \/ AdvanceClock
    \/ \E from \in Addrs : \E nonce \in Nonces : MessageReceivedPong(from, nonce)
    \/ Tick
    \/ Drain

LatencySpec == LatencyInit /\ [][LatencyNext]_vars

\* ------------------------------------------------------------------------
\* Vocabulary of the properties.
Known(a) == a \in DOMAIN peers

Awaiting(ps, a) == a \in DOMAIN ps /\ ps[a].state.tag = "AwaitingPong"

IsIdle(ps, a) == a \in DOMAIN ps /\ ps[a].state.tag = "Idle"

\* The peer awaits a pong and its timeout has elapsed at time now.
TimedOut(ps, a, now) ==
    Awaiting(ps, a) /\ now - ps[a].state.since >= ping_timeout

\* The peer is idle and its next ping is due at time now.
PingDue(ps, a, now) ==
    IsIdle(ps, a) /\ now - ps[a].state.since >= PING_INTERVAL

\* The Io of s addressed to a.
IoFor(s, a) == SelectSeq(s, LAMBDA x : IoAddr(x) = a)

IsDisconnect(x) == x.io = "disconnect"

\* The results a tick may have in the current state: one for each iteration
\* order of the map and each draw of nonces.
TickResults ==
    {timer_expired(peers, outbox, clock, ping_timeout, order, nonces) :
        order \in Orders(DOMAIN peers), nonces \in [DOMAIN peers -> Nonces]}

\* The results a tick may have at time now in the state a handler left.
TickResultsAfter(r, now) ==
    {timer_expired(r.peers, r.outbox, now, ping_timeout, order, nonces) :
        order \in Orders(DOMAIN r.peers),
        nonces \in [DOMAIN r.peers -> Nonces]}

Min(a, b) == IF a <= b THEN a ELSE b

\* ------------------------------------------------------------------------
\* The manager over unbounded time, with peers that answer no ping and send
\* none.

\* A state of a peer with its time read from an origin one unit later; a time
\* before the origin reads as the origin.
Shifted(state) ==
    LET since == IF state.since > 0 THEN state.since - 1 ELSE 0 IN
    IF state.tag = "AwaitingPong" THEN AwaitingPong(state.nonce, since)
    ELSE Idle(since)

\* The clock advances past MaxTime: it reads MaxTime again, from an origin
\* one unit later, and so do the times the records hold.  The handlers read
\* the records' times only in now - since compared with ping_timeout and
\* PING_INTERVAL, which are at most MaxTime.
AdvanceEpoch ==
    /\ clock = MaxTime
    /\ peers' = [a \in DOMAIN peers |->
                   Peer(peers[a].address, Shifted(peers[a].state),
                        peers[a].latencies)]
    /\ last' = [kind |-> "AdvanceClock", addr |-> "none"]
    /\ UNCHANGED <<ping_timeout, outbox, clock, firstIo, negotiated, tx, counts>>

\* A pong that is not the one the peer's record awaits.
MessageReceivedStrayPong(from, nonce) ==
    /\ ~(Awaiting(peers, from) /\ peers[from].state.nonce = nonce)
    /\ MessageReceivedPong(from, nonce)

LiveNext ==
    \/ AdvanceClock
    \/ AdvanceEpoch
    \/ \E addr \in Addrs : PeerNegotiated(addr)
    \/ \E addr \in Addrs : PeerDisconnected(addr)
    \/ \E from \in Addrs : \E nonce \in Nonces :
          MessageReceivedStrayPong(from, nonce)
    \/ Tick
    \/ Drain

\* Ticks keep being delivered, the clock keeps advancing and the driver keeps
\* draining the outbox.
LiveSpec ==
    /\ Init
    /\ [][LiveNext]_vars
    /\ SF_vars(Tick)
    /\ WF_vars(AdvanceClock)
    /\ WF_vars(AdvanceEpoch)
    /\ WF_vars(Drain)

\* ------------------------------------------------------------------------
\* The manager over unbounded time, with one peer, which answers its pings.

\* A pong, while the record of its sender has accepted fewer than MaxPongs.
MessageReceivedPongInTime(from, nonce) ==
    /\ counts[from].pongs < MaxPongs
    /\ MessageReceivedPong(from, nonce)

RepingNext ==
    \/ AdvanceClock
    \/ AdvanceEpoch
    \/ \E addr \in {"a1"} : PeerNegotiated(addr)
    \/ \E addr \in {"a1"} : PeerDisconnected(addr)
    \/ \E from \in Addrs : \E nonce \in Nonces :
          MessageReceivedPongInTime(from, nonce)
    \/ Tick
    \/ Drain

\* Ticks keep being delivered, the clock keeps advancing and the driver keeps
\* draining the outbox.
RepingSpec ==
    /\ Init
    /\ [][RepingNext]_vars
    /\ SF_vars(Tick)
    /\ WF_vars(AdvanceClock)
    /\ WF_vars(AdvanceEpoch)
    /\ WF_vars(Drain)

\* ------------------------------------------------------------------------
\* C1: in every reachable state, handling PeerNegotiated{addr} enqueues
\* exactly one Io, a ping for addr whose nonce is the nonce of addr's new
\* state AwaitingPong{nonce, since = now}; and of all Io produced for an
\* address from its last negotiation onwards, the first is that ping.
C1_NegotiatedPingsFirst ==
    /\ \A a \in Addrs : \A n \in Nonces :
         LET r == peer_negotiated(peers, outbox, clock, a, n) IN
         /\ Awaiting(r.peers, a)
         /\ r.peers[a].state.since = clock
         /\ r.outbox =
              Append(outbox, IoWrite(a, Ping(r.peers[a].state.nonce)))
    /\ \A a \in Addrs :
         /\ firstIo[a] \in {"none", "ping"}
         /\ negotiated[a] => firstIo[a] = "ping"

\* C1 happens: a peer was just negotiated, its ping is the newest Io of the
\* outbox behind an older Io, and carries the nonce of the peer's state.
C1_Witness ==
    \E a \in Addrs :
       /\ last = [kind |-> "PeerNegotiated", addr |-> a]
       /\ Awaiting(peers, a)
       /\ Len(outbox) >= 2
       /\ outbox[Len(outbox)] = IoWrite(a, Ping(peers[a].state.nonce))
       /\ firstIo[a] = "ping"

\* C2: in every reachable state, a pong from a peer in AwaitingPong{nonce,
\* since} carrying that nonce moves the peer to Idle{since = now}, pushes
\* exactly one sample now - since on the front of its history, and enqueues
\* no Io.
C2_MatchingPong ==
    \A a \in Addrs :
       Awaiting(peers, a) =>
          LET old == peers[a]
              r == received_pong(peers, outbox, clock, a, old.state.nonce)
              new == r.peers[a]
          IN  /\ new.state = Idle(clock)
              /\ Len(new.latencies) =
                   Min(Len(old.latencies) + 1, MAX_RECORDED_LATENCIES)
              /\ new.latencies[1] = clock - old.state.since
              /\ \A i \in 2..Len(new.latencies) :
                    new.latencies[i] = old.latencies[i - 1]
              /\ r.outbox = outbox

\* C2 happens: a pong was just accepted from a peer, with a latency that is
\* not zero, while an Io is queued.
C2_Witness ==
    \E a \in Addrs :
       /\ last = [kind |-> "Pong", addr |-> a]
       /\ IsIdle(peers, a)
       /\ peers[a].state.since = clock
       /\ Len(peers[a].latencies) = 1
       /\ peers[a].latencies[1] > 0
       /\ outbox # <<>>

\* C3: in every reachable state, a pong that matches no outstanding nonce
\* (another nonce while AwaitingPong, any pong while Idle, a pong from an
\* unknown peer) leaves every peer's record and the outbox as they were.
C3_StrayPongNoOp ==
    \A a \in Addrs : \A n \in Nonces :
       (~Awaiting(peers, a) \/ peers[a].state.nonce # n) =>
          received_pong(peers, outbox, clock, a, n) = Result(peers, outbox)

\* C3 happens: a pong was just handled from a peer that still awaits its
\* pong, with an Io queued and the other peer known.
C3_Witness ==
    \E a \in Addrs :
       /\ last = [kind |-> "Pong", addr |-> a]
       /\ Awaiting(peers, a)
       /\ outbox # <<>>
       /\ \E b \in Addrs \ {a} : Known(b)

\* C4: in every reachable state, for a peer in AwaitingPong{since} with
\* now - since >= ping_timeout, a tick enqueues exactly one Io for the peer,
\* disconnect(peer, PeerTimeout("ping")), and leaves the peer's record as it
\* was; a further tick at any later time enqueues one more, and a tick after
\* PeerDisconnected has removed the record enqueues none.
C4_TimeoutDisconnectsEveryTick ==
    \A a \in Addrs :
       TimedOut(peers, a, clock) =>
          \A r \in TickResults :
             /\ r.peers[a] = peers[a]
             /\ IoFor(Produced(outbox, r.outbox), a) =
                  <<IoDisconnect(a, PeerTimeout("ping"))>>
             /\ \A t \in clock..MaxTime : \A r2 \in TickResultsAfter(r, t) :
                   /\ r2.peers[a] = peers[a]
                   /\ IoFor(Produced(r.outbox, r2.outbox), a) =
                        <<IoDisconnect(a, PeerTimeout("ping"))>>
             /\ \A r3 \in TickResultsAfter(
                             peer_disconnected(r.peers, r.outbox, a), clock) :
                   IoFor(Produced(r.outbox, r3.outbox), a) = <<>>

\* C4 happens: a tick has just run on a timed-out peer whose earlier
\* disconnect is still queued, so that two disconnects for it are queued.
C4_Witness ==
    \E a \in Addrs :
       /\ last.kind = "Tick"
       /\ TimedOut(peers, a, clock)
       /\ IoFor(outbox, a) = <<IoDisconnect(a, PeerTimeout("ping")),
                               IoDisconnect(a, PeerTimeout("ping"))>>

C6_DisconnectedRemoves ==
    \A a \in Addrs :
       LET r == peer_disconnected(peers, outbox, a) IN
       /\ a \notin DOMAIN r.peers
       /\ DOMAIN r.peers = DOMAIN peers \ {a}
       /\ \A b \in DOMAIN r.peers : r.peers[b] = peers[b]
       /\ r.outbox = outbox
       /\ ~Known(a) => r = Result(peers, outbox)

\* C6 happens: PeerDisconnected has just removed the record of a peer that
\* had been negotiated, while Io for it is queued and the other peer is known.
C6_Witness ==
    \E a \in Addrs :
       /\ last = [kind |-> "PeerDisconnected", addr |-> a]
       /\ ~Known(a)
       /\ firstIo[a] = "ping"
       /\ IoFor(outbox, a) # <<>>
       /\ \E b \in Addrs \ {a} : Known(b)

\* C7: in every reachable state, a ping(nonce) from a known peer enqueues
\* exactly one Io, a pong to that peer with the same nonce, and a ping from an
\* unknown peer enqueues nothing; neither changes any peer's record.
C7_PingEchoed ==
    \A a \in Addrs : \A n \in Nonces :
       LET r == received_ping(peers, outbox, a, n) IN
       /\ r.peers = peers
       /\ Known(a) => r.outbox = Append(outbox, IoWrite(a, Pong(n)))
       /\ ~Known(a) => r.outbox = outbox

\* C7 happens: a ping from an idle peer has just been answered by a pong,
\* queued behind an older Io.
C7_Witness ==
    \E a \in Addrs : \E n \in Nonces :
       /\ last = [kind |-> "Ping", addr |-> a]
       /\ IsIdle(peers, a)
       /\ Len(outbox) >= 2
       /\ outbox[Len(outbox)] = IoWrite(a, Pong(n))

\* The Io a step appends to the outbox (a drain appends none).
NewIo ==
    IF last'.kind = "Drain" THEN <<>> ELSE Produced(outbox, outbox')

\* C8: over any sequence of events and ticks, every step that enqueues a
\* disconnect is a tick, the disconnect is for a peer in AwaitingPong with
\* now - since >= ping_timeout at that tick, and its reason is
\* PeerTimeout("ping").
C8_DisconnectOnlyOnTimeout ==
    [][\A i \in DOMAIN NewIo :
          IsDisconnect(NewIo[i]) =>
             /\ last'.kind = "Tick"
             /\ TimedOut(peers, NewIo[i].addr, clock)
             /\ NewIo[i].reason = PeerTimeout("ping")]_vars

\* C8 happens: a tick has just enqueued a disconnect for a timed-out peer and
\* none for the other peer, which is known and not timed out.
C8_Witness ==
    \E a \in Addrs : \E b \in Addrs \ {a} :
       /\ last.kind = "Tick"
       /\ TimedOut(peers, a, clock)
       /\ outbox # <<>>
       /\ outbox[Len(outbox)] = IoDisconnect(a, PeerTimeout("ping"))
       /\ Known(b)
       /\ ~TimedOut(peers, b, clock)
       /\ IoFor(outbox, b) = <<>>

\* C9: over any sequence of events and ticks, a drain of an empty outbox
\* returns nothing and a drain of a non-empty outbox returns its oldest Io and
\* leaves the others in order; every other step leaves the queued Io in place
\* and in order, in front of what it enqueues (so Io leave in the order they
\* were enqueued, also after an empty drain); a drain changes no peer record.
C9_OutboxFifo ==
    [][IF last'.kind = "Drain"
       THEN /\ peers' = peers
            /\ outbox = <<>> => last'.item = <<>> /\ outbox' = <<>>
            /\ outbox # <<>> =>
                  last'.item = <<outbox[1]>> /\ outbox' = Tail(outbox)
       ELSE /\ Len(outbox') >= Len(outbox)
            /\ SubSeq(outbox', 1, Len(outbox)) = outbox]_vars

\* C9 happens: a drain has just returned the Io of one stimulus and left the
\* Io of a later stimulus queued.
C9_Witness ==
    /\ last.kind = "Drain"
    /\ last.item # <<>>
    /\ IoKind(last.item[1]) = "ping"
    /\ outbox # <<>>
    /\ IoKind(outbox[1]) = "pong"

\* C10: in every reachable state the manager holds a record for addr exactly
\* when the most recent PeerNegotiated/PeerDisconnected event for addr was
\* PeerNegotiated, and the record kept under a key is that address's; and
\* over any sequence of events and ticks, a step that creates a record is
\* PeerNegotiated for that address and a step that removes one is
\* PeerDisconnected for that address.
C10_RecordLifecycle ==
    /\ [](/\ DOMAIN peers = {a \in Addrs : negotiated[a]}
          /\ \A a \in DOMAIN peers : peers[a].address = a)
    /\ [][/\ \A a \in DOMAIN peers' \ DOMAIN peers :
                last' = [kind |-> "PeerNegotiated", addr |-> a]
          /\ \A a \in DOMAIN peers \ DOMAIN peers' :
                last' = [kind |-> "PeerDisconnected", addr |-> a]]_vars

\* C10 happens: a tick has just run on a timed-out peer, whose record is
\* still held, while the other peer was negotiated and then disconnected.
C10_Witness ==
    \E a \in Addrs : \E b \in Addrs \ {a} :
       /\ last.kind = "Tick"
       /\ TimedOut(peers, a, clock)
       /\ negotiated[a]
       /\ ~Known(b)
       /\ firstIo[b] = "ping"

\* C11: in every reachable state, handling an event of any variant other than
\* PeerNegotiated, PeerDisconnected and MessageReceived, or a MessageReceived
\* whose message is neither a ping nor a pong, leaves every peer record and
\* the outbox as they were (so the events that follow are handled from the
\* same state).
C11_OtherEventsNoOp ==
    \A e \in IgnoredEvents : \A n \in Nonces :
       received_event(peers, outbox, clock, e, n) = Result(peers, outbox)

\* C11 happens: an ignored event has just been handled while one peer awaits
\* its pong, the other is idle and an Io is queued.
C11_Witness ==
    \E a \in Addrs : \E b \in Addrs :
       /\ last.kind = "Ignored"
       /\ Awaiting(peers, a)
       /\ IsIdle(peers, b)
       /\ outbox # <<>>

\* s is an initial segment of t.
IsPrefix(s, t) == Len(s) <= Len(t) /\ SubSeq(t, 1, Len(s)) = s

\* The Io that successive drains of ob return, until the empty signal.
RECURSIVE Drained(_)
Drained(ob) ==
    IF OutboxNextItem(ob) = <<>> THEN <<>>
    ELSE OutboxNextItem(ob) \o Drained(OutboxNextRest(ob))

\* The results an event may have in the current state, one for each nonce the
\* rng may yield.
EventResults(e) ==
    {received_event(peers, outbox, clock, e, n) : n \in Nonces}

\* C12: in every reachable state, every event (PeerDisconnected among them)
\* and every tick leaves the queued Io in the outbox, in place, and at most
\* appends to them, so that the drains that follow return them; this holds for
\* the Io queued for a peer whose record the event deletes.
C12_QueuedIoNotRetracted ==
    /\ \A e \in AllEvents : \A r \in EventResults(e) :
          /\ IsPrefix(outbox, r.outbox)
          /\ IsPrefix(outbox, Drained(r.outbox))
    /\ \A r \in TickResults :
          /\ IsPrefix(outbox, r.outbox)
          /\ IsPrefix(outbox, Drained(r.outbox))
    /\ \A a \in Addrs : \A r \in EventResults(EvPeerDisconnected(a)) :
          IoFor(Drained(r.outbox), a) = IoFor(outbox, a)

\* C12 happens: after PeerDisconnected deleted a peer's record, a drain has
\* just returned a disconnect queued for that peer.
C12_Witness ==
    \E a \in Addrs :
       /\ last.kind = "Drain"
       /\ last.item = <<IoDisconnect(a, PeerTimeout("ping"))>>
       /\ ~Known(a)
       /\ ~negotiated[a]

\* C13: in every reachable state each peer's history holds at most
\* MAX_RECORDED_LATENCIES (64) samples, and recording a sample puts it first
\* and keeps the samples held behind it in their order, of which the last is
\* dropped exactly when 64 were held.
C13_HistoryBounded ==
    \A a \in DOMAIN peers :
       LET old == peers[a].latencies IN
       /\ Len(old) <= MAX_RECORDED_LATENCIES
       /\ \A sample \in 0..MaxTime :
             LET new == record_latency(old, sample) IN
             /\ new[1] = sample
             /\ Len(new) = Min(Len(old) + 1, MAX_RECORDED_LATENCIES)
             /\ \A i \in 2..Len(new) : new[i] = old[i - 1]
       /\ Awaiting(peers, a) =>
             received_pong(peers, outbox, clock, a,
                           peers[a].state.nonce).peers[a].latencies =
                record_latency(old, clock - peers[a].state.since)

\* C13 happens: a pong has just been recorded on a history of 64 samples:
\* the history holds 64 samples, the new one first, then the 63 newest of the
\* samples held before, the oldest (1 minute) being dropped.
C13_Witness ==
    \E a \in Addrs :
       /\ last = [kind |-> "Pong", addr |-> a]
       /\ IsIdle(peers, a)
       /\ Len(peers[a].latencies) = MAX_RECORDED_LATENCIES
       /\ peers[a].latencies[1] = clock
       /\ SubSeq(peers[a].latencies, 2, MAX_RECORDED_LATENCIES) =
            SubSeq(LongHistory(MAX_RECORDED_LATENCIES), 1,
                   MAX_RECORDED_LATENCIES - 1)
       /\ clock > 0

\* The history with the samples at positions i and i + 1 exchanged.  Every
\* ordering of the same samples is reached by such exchanges.
Exchanged(h, i) ==
    [j \in 1..Len(h) |-> IF j = i THEN h[i + 1] ELSE IF j = i + 1 THEN h[i] ELSE h[j]]

\* The history in the opposite order, oldest first.
Reversed(h) == [j \in 1..Len(h) |-> h[Len(h) + 1 - j]]

TagOrder == <<"Unconfirmed", "Acknowledged", "Confirmed", "Reverted", "Stale">>
TagPlace(status) == CHOOSE i \in DOMAIN TagOrder : TagOrder[i] = status.tag

\* The Ordering seen from the other side.
Opposite(o) == IF o = "Less" THEN "Greater" ELSE IF o = "Greater" THEN "Less" ELSE o

\* C15: the order of TxStatus is total (two values are equal, or one is less
\* and the other greater; less-than is transitive), and values of different
\* variants are ordered Unconfirmed < Acknowledged < Confirmed < Reverted <
\* Stale whatever their fields: a Reverted is greater than any Confirmed.
C15_TxStatusOrderTotalByTag ==
    LET a == tx.a
        b == tx.b
    IN  /\ tx.ordering \in {"none", cmp(a, b)}
        /\ cmp(a, b) \in {"Less", "Equal", "Greater"}
        /\ (cmp(a, b) = "Equal") <=> (a = b)
        /\ cmp(b, a) = Opposite(cmp(a, b))
        /\ \A c \in TxStatuses :
              (cmp(a, b) = "Less" /\ cmp(b, c) = "Less") => cmp(a, c) = "Less"
        /\ TagPlace(a) < TagPlace(b) => cmp(a, b) = "Less"
        /\ TagPlace(a) > TagPlace(b) => cmp(a, b) = "Greater"
        /\ (a.tag = "Confirmed" /\ b.tag = "Reverted") => cmp(a, b) = "Less"

\* C15 happens: a Confirmed at the greatest height has been compared with a
\* Reverted of the least transaction and found less.
C15_Witness ==
    /\ tx.a = Confirmed(1, 1)
    /\ tx.b = Reverted(0)
    /\ tx.ordering = "Less"

\* C16: two values of one variant are ordered by their fields in declared
\* order: two Confirmed by (height, block), the lower height being less
\* whatever the block hashes and equal heights falling to the block hash; two
\* Stale by (replaced_by, block); two Acknowledged by the peer's address.
C16_SameTagByFields ==
    LET a == tx.a
        b == tx.b
    IN  /\ tx.ordering \in {"none", cmp(a, b)}
        /\ (a.tag = "Confirmed" /\ b.tag = "Confirmed") =>
              /\ a.height < b.height => cmp(a, b) = "Less"
              /\ a.height > b.height => cmp(a, b) = "Greater"
              /\ a.height = b.height => cmp(a, b) = cmp_int(a.block, b.block)
        /\ (a.tag = "Stale" /\ b.tag = "Stale") =>
              /\ a.replaced_by < b.replaced_by => cmp(a, b) = "Less"
              /\ a.replaced_by > b.replaced_by => cmp(a, b) = "Greater"
              /\ a.replaced_by = b.replaced_by =>
                    cmp(a, b) = cmp_int(a.block, b.block)
        /\ (a.tag = "Acknowledged" /\ b.tag = "Acknowledged") =>
              /\ a.peer[1] < b.peer[1] => cmp(a, b) = "Less"
              /\ a.peer[1] > b.peer[1] => cmp(a, b) = "Greater"
              /\ a.peer[1] = b.peer[1] => cmp(a, b) = cmp_int(a.peer[2], b.peer[2])
        /\ (a.tag = "Reverted" /\ b.tag = "Reverted") =>
              cmp(a, b) = cmp_int(a.transaction, b.transaction)

\* C16 happens: a Confirmed of lower height and greater block hash has been
\* compared with one of greater height and lower block hash and found less.
C16_Witness ==
    /\ tx.a = Confirmed(0, 1)
    /\ tx.b = Confirmed(1, 0)
    /\ tx.ordering = "Less"

\* No peer is due at time now: no awaited pong has timed out and no idle
\* peer's next ping is due.
NoneDue(now) ==
    \A a \in DOMAIN peers :
       ~TimedOut(peers, a, now) /\ ~PingDue(peers, a, now)

\* C17: in every reachable state a tick at a time at which no peer is due
\* leaves the peers and the outbox as they are (so any number of such ticks
\* at any spacing does), and for a peer awaiting a pong a tick enqueues a
\* disconnect exactly from since + ping_timeout on: none one unit before,
\* one at that very time.
C17_QuietTick ==
    /\ \A now \in clock..(MaxTime + 1) :
          NoneDue(now) =>
             \A r \in TickResultsAfter(Result(peers, outbox), now) :
                /\ r = Result(peers, outbox)
                /\ \A later \in now..(MaxTime + 1) :
                      NoneDue(later) =>
                         TickResultsAfter(r, later) = {Result(peers, outbox)}
    /\ \A a \in DOMAIN peers :
          Awaiting(peers, a) =>
             LET at == peers[a].state.since + ping_timeout IN
             \A now \in clock..(MaxTime + 1) :
                \A r \in TickResultsAfter(Result(peers, outbox), now) :
                   LET new == IoFor(Produced(outbox, r.outbox), a) IN
                   /\ now < at => new = <<>>
                   /\ now >= at =>
                         new = <<IoDisconnect(a, PeerTimeout("ping"))>>

\* C17 happens: a tick has been handled one unit before the timeout of a peer
\* awaiting its pong and one unit before the next ping of an idle peer, and
\* the outbox is empty.
C17_Witness ==
    \E a, b \in Addrs :
       /\ last.kind = "Tick"
       /\ Awaiting(peers, a)
       /\ clock - peers[a].state.since = ping_timeout - 1
       /\ IsIdle(peers, b)
       /\ clock - peers[b].state.since = PING_INTERVAL - 1
       /\ outbox = <<>>

\* C18: in every reachable state, for every peer record the pings enqueued
\* for it since it was created are as many as the pongs it has accepted since
\* then, plus one if it awaits a pong; and once a pong is accepted, the pong
\* of the same nonce coming again records nothing.
C18_OnePongPerPing ==
    /\ \A a \in DOMAIN peers :
          counts[a].pings =
             counts[a].pongs + (IF Awaiting(peers, a) THEN 1 ELSE 0)
    /\ \A a \in DOMAIN peers :
          Awaiting(peers, a) =>
             \A now \in clock..MaxTime :
                LET nonce == peers[a].state.nonce
                    r == received_pong(peers, outbox, now, a, nonce)
                IN  /\ IsIdle(r.peers, a)
                    /\ \A again \in now..MaxTime :
                          received_pong(r.peers, r.outbox, again, a, nonce) = r

\* C18 happens: a record has been pinged twice, on negotiation and on a
\* tick, and has just accepted the second pong.
C18_Witness ==
    \E a \in Addrs :
       /\ last = [kind |-> "Pong", addr |-> a]
       /\ IsIdle(peers, a)
       /\ peers[a].state.since = clock
       /\ counts[a] = [pings |-> 2, pongs |-> 2]
       /\ Len(peers[a].latencies) = 2

\* The pings for a that a handler leaving r has enqueued.
NewPings(r, a) == PingsFor(Produced(outbox, r.outbox), a)

\* C19 as stated: in every reachable state, no tick and no event enqueues a
\* ping for a peer whose record is in AwaitingPong.
C19_NoPingWhileAwaiting ==
    \A a \in DOMAIN peers :
       Awaiting(peers, a) =>
          /\ \A r \in TickResults : NewPings(r, a) = 0
          /\ \A e \in AllEvents : \A r \in EventResults(e) : NewPings(r, a) = 0

\* C19, amended: in every reachable state, for a peer whose record is in
\* AwaitingPong, no tick and no event other than PeerNegotiated for that peer
\* enqueues a ping for it; PeerNegotiated for it enqueues one ping, with the
\* nonce of the record that replaces the old one, which awaits that pong only.
C19_OnePingAwaited ==
    \A a \in DOMAIN peers :
       Awaiting(peers, a) =>
          /\ \A r \in TickResults : NewPings(r, a) = 0
          /\ \A e \in AllEvents \ {EvPeerNegotiated(a)} :
                \A r \in EventResults(e) : NewPings(r, a) = 0
          /\ \A r \in EventResults(EvPeerNegotiated(a)) :
                /\ Awaiting(r.peers, a)
                /\ r.peers[a].state.since = clock
                /\ IoFor(Produced(outbox, r.outbox), a) =
                      <<IoWrite(a, Ping(r.peers[a].state.nonce))>>

\* C19 happens: PeerNegotiated has been handled for a peer that awaited a
\* pong: two pings for it are queued, and the record awaits the second.
C19_Witness ==
    \E a \in Addrs : \E n1, n2 \in Nonces :
       /\ last = [kind |-> "PeerNegotiated", addr |-> a]
       /\ outbox = <<IoWrite(a, Ping(n1)), IoWrite(a, Ping(n2))>>
       /\ n1 # n2
       /\ Awaiting(peers, a)
       /\ peers[a].state.nonce = n2
       /\ counts[a] = [pings |-> 1, pongs |-> 0]

\* The last step was a tick that enqueued the disconnect of a for a ping
\* timeout.
Signalled(a) ==
    /\ last.kind = "Tick"
    /\ \E i \in DOMAIN last.item :
          last.item[i] = IoDisconnect(a, PeerTimeout("ping"))

\* C20 as stated: a negotiated peer for which neither a matching pong nor a
\* PeerDisconnected arrives is eventually signalled for disconnection, under
\* ticks that keep coming and a clock that keeps advancing; and it is not
\* signalled before since + ping_timeout.
C20_DeadPeerDetected ==
    /\ [](\A a \in Addrs : Signalled(a) => TimedOut(peers, a, clock))
    /\ \A a \in Addrs :
          Awaiting(peers, a) ~>
             \/ Signalled(a)
             \/ IsIdle(peers, a)
             \/ last = [kind |-> "PeerDisconnected", addr |-> a]

\* C20, amended: a negotiated peer for which no matching pong, no
\* PeerDisconnected and no further PeerNegotiated arrives is eventually
\* signalled for disconnection, under ticks that keep coming and a clock that
\* keeps advancing; and it is not signalled before since + ping_timeout.
C20_DeadPeerDetectedUnlessRenegotiated ==
    /\ [](\A a \in Addrs : Signalled(a) => TimedOut(peers, a, clock))
    /\ \A a \in Addrs :
          Awaiting(peers, a) ~>
             \/ Signalled(a)
             \/ IsIdle(peers, a)
             \/ last = [kind |-> "PeerDisconnected", addr |-> a]
             \/ last = [kind |-> "PeerNegotiated", addr |-> a]

\* C20 happens: a tick has enqueued the disconnect of a peer at the very time
\* since + ping_timeout, the peer's ping being the only Io enqueued for it
\* before.
C20_Witness ==
    \E a \in Addrs :
       /\ Signalled(a)
       /\ Awaiting(peers, a)
       /\ clock = peers[a].state.since + ping_timeout
       /\ negotiated[a]
       /\ counts[a] = [pings |-> 1, pongs |-> 0]

\* The last step was a tick that enqueued a ping for a, whose pong the record
\* of a awaits since then.
Repinged(a) ==
    /\ last.kind = "Tick"
    /\ Awaiting(peers, a)
    /\ peers[a].state.since = clock
    /\ \E i \in DOMAIN last.item :
          last.item[i] = IoWrite(a, Ping(peers[a].state.nonce))

\* C21: an idle record for which no PeerDisconnected and no PeerNegotiated
\* arrives is eventually pinged again and awaits the pong, under ticks that
\* keep coming and a clock that keeps advancing; and a matching pong, whenever
\* it comes, makes the record idle again, so that a peer that answers
\* alternates between the two.
C21_IdleEventuallyRepinged ==
    /\ [](\A a \in DOMAIN peers :
            Awaiting(peers, a) =>
               IsIdle(received_pong(peers, outbox, clock, a,
                                    peers[a].state.nonce).peers, a))
    /\ \A a \in Addrs :
          IsIdle(peers, a) ~>
             \/ Repinged(a)
             \/ last = [kind |-> "PeerDisconnected", addr |-> a]
             \/ last = [kind |-> "PeerNegotiated", addr |-> a]

\* C21 happens: a record that has answered its first ping has been pinged
\* again by a tick, PING_INTERVAL after it became idle or later.
C21_Witness ==
    \E a \in Addrs :
       /\ Repinged(a)
       /\ counts[a] = [pings |-> 2, pongs |-> 1]
       /\ Len(peers[a].latencies) = 1
       /\ negotiated[a]

\* The disconnects of a among the Io a handler appended to ob, leaving ob2.
NewDisconnects(ob, ob2, a) ==
    SelectSeq(IoFor(Produced(ob, ob2), a), IsDisconnect)

\* C22: in every reachable state, for a peer whose timeout has elapsed and
\* for which a tick has enqueued a disconnect, the matching pong at any later
\* time is accepted: the record becomes Idle{since = now} with the sample
\* now - since >= ping_timeout first in its history, and the outbox keeps the
\* queued disconnects; the ticks that follow enqueue no disconnect for the
\* peer, until one has pinged it again and that ping has timed out in turn.
C22_LatePongAccepted ==
    \A a \in Addrs :
       TimedOut(peers, a, clock) =>
          \A r \in TickResults : \A now \in clock..MaxTime :
             LET p == received_pong(r.peers, r.outbox, now, a,
                                    peers[a].state.nonce)
             IN  /\ NewDisconnects(outbox, r.outbox, a) # <<>>
                 /\ p.peers[a].state = Idle(now)
                 /\ p.peers[a].latencies[1] = now - peers[a].state.since
                 /\ p.peers[a].latencies[1] >= ping_timeout
                 /\ p.outbox = r.outbox
                 /\ \A t \in now..(now + PING_INTERVAL) :
                       \A r2 \in TickResultsAfter(p, t) :
                          /\ NewDisconnects(p.outbox, r2.outbox, a) = <<>>
                          /\ IsPrefix(r.outbox, r2.outbox)
                          /\ \A t2 \in t..(t + ping_timeout) :
                                \A r3 \in TickResultsAfter(r2, t2) :
                                   NewDisconnects(r2.outbox, r3.outbox, a) # <<>>
                                      => /\ Awaiting(r2.peers, a)
                                         /\ r2.peers[a].state.since = t
                                         /\ t2 - t >= ping_timeout

\* C22 happens: a peer was signalled for disconnection, its pong came after
\* the timeout and was accepted, and a tick after that has left the queued
\* disconnect alone in the outbox.
C22_Witness ==
    \E a \in Addrs :
       /\ last.kind = "Tick"
       /\ last.item = <<>>
       /\ IsIdle(peers, a)
       /\ peers[a].latencies[1] >= ping_timeout
       /\ outbox = <<IoDisconnect(a, PeerTimeout("ping"))>>
       /\ negotiated[a]

\* C23: in every reachable state, PeerNegotiated for a peer that has a record
\* replaces it: the new record awaits the nonce just drawn since now and has
\* an empty history, the other records stay, and the one Io enqueued is the
\* ping with that nonce; a pong that comes later with the nonce the old record
\* awaited changes nothing unless that is the new nonce too, and is accepted
\* if it is.
C23_RenegotiationReplaces ==
    \A a \in DOMAIN peers : \A nonce \in Nonces :
       LET r == received_event(peers, outbox, clock, EvPeerNegotiated(a), nonce)
       IN  /\ DOMAIN r.peers = DOMAIN peers
           /\ r.peers[a] = Peer(a, AwaitingPong(nonce, clock), <<>>)
           /\ \A b \in DOMAIN peers \ {a} : r.peers[b] = peers[b]
           /\ IsPrefix(outbox, r.outbox)
           /\ Produced(outbox, r.outbox) = <<IoWrite(a, Ping(nonce))>>
           /\ Awaiting(peers, a) =>
                 \A now \in clock..MaxTime :
                    LET previous == peers[a].state.nonce
                        p == received_event(r.peers, r.outbox, now,
                                EvMessageReceived(a, Pong(previous)), Undrawn)
                    IN  /\ previous # nonce => p = r
                        /\ previous = nonce =>
                              /\ p.peers[a] = Peer(a, Idle(now), <<now - clock>>)
                              /\ p.outbox = r.outbox

\* C23 happens: PeerNegotiated has been handled for a peer whose record had
\* timed out and been signalled: the disconnect is queued before the new ping,
\* and the record awaits the new nonce since now with an empty history.
C23_Witness ==
    \E a \in Addrs : \E n \in Nonces :
       /\ last = [kind |-> "PeerNegotiated", addr |-> a]
       /\ outbox = <<IoDisconnect(a, PeerTimeout("ping")), IoWrite(a, Ping(n))>>
       /\ peers[a] = Peer(a, AwaitingPong(n, clock), <<>>)
       /\ clock >= ping_timeout
       /\ counts[a] = [pings |-> 1, pongs |-> 0]

\* C24: in every reachable state a peer in Idle has at least one sample in
\* its history, so that latency() has a number of samples to divide by, and a
\* peer with no sample is in AwaitingPong, on the first ping of its record,
\* none of whose pongs has been accepted.
C24_IdleHasSamples ==
    \A a \in DOMAIN peers :
       LET h == peers[a].latencies IN
       /\ IsIdle(peers, a) =>
             /\ Len(h) >= 1
             /\ Len(h) * latency(h) <= Sum(h)
             /\ counts[a].pongs >= 1
       /\ h = <<>> =>
             /\ Awaiting(peers, a)
             /\ counts[a] = [pings |-> 1, pongs |-> 0]

\* C24 happens: a pong has just made a peer idle with its first sample, which
\* is its latency, while another peer with no sample awaits its first pong.
C24_Witness ==
    \E a, b \in Addrs :
       /\ last = [kind |-> "Pong", addr |-> a]
       /\ IsIdle(peers, a)
       /\ Len(peers[a].latencies) = 1
       /\ latency(peers[a].latencies) = peers[a].latencies[1]
       /\ Awaiting(peers, b)
       /\ peers[b].latencies = <<>>
       /\ counts[b] = [pings |-> 1, pongs |-> 0]

====
